---- MODULE Spec2Model ----
(***************************************************************************)
(* Model of the registration / authorization service of                    *)
(* TURRA7/registration_authorization: the FastAPI handlers of              *)
(* src/api/api.py over a Redis key-value store and the user table.         *)
(*                                                                         *)
(* The handlers are translated line by line.  The collaborators they call  *)
(* (backend.backend, database.FDataBase, jwt_tools.jwt) are not part of    *)
(* the sources at hand and are modelled from the specification document.   *)
(***************************************************************************)
EXTENDS Integers, Sequences, FiniteSets, TLC

(* ------------------------------------------------------------------ *)
(* Bounds of the model                                                 *)
(* ------------------------------------------------------------------ *)
MaxUsers == 2
MaxIssued == 1

(* ------------------------------------------------------------------ *)
(* Program constants                                                   *)
(* ------------------------------------------------------------------ *)
TOKEN_LIFETIME_HOURS == 1
TOKEN_TTL_HOURS == 12

SESSION_STATE_MAIL == "MAIL_SENT"
SESSION_STATE_CODE == "CODE_VERIFIED"

(* ------------------------------------------------------------------ *)
(* Input universes                                                     *)
(* ------------------------------------------------------------------ *)
Logins == {"alice", "bob"}
GoodEmails == {"a@x.com", "b@x.com"}
BadEmails == {"not-an-email"}
Emails == GoodEmails \cup BadEmails
Passwords == {"P@ss1", "New1"}
RegPasswords == {"P@ss1"}
NewPasswords == {"New1"}
RecoverIdents == Logins \cup {"a@x.com"}
CodeTexts == {"c1"}
None == "None"
RememberFlags == {"True"}

(* ------------------------------------------------------------------ *)
(* Strings used as Redis keys.  Every key is a string; the record says *)
(* which string it is: a plain text, that text behind the literal      *)
(* prefix "login:", or a JWT carrying a login and an expiry (signed    *)
(* with SECRET_KEY, or with another key: "forged").                    *)
(*                                                                     *)
(* Times are kept relative to the current instant, in hours: a token's *)
(* exp is the time left until its expiry claim passes (<= 0 once it    *)
(* has), an entry's ex the time left until the store reaps the key.    *)
(* ------------------------------------------------------------------ *)
Str(txt) == [form |-> "plain", pfx |-> FALSE, txt |-> txt, exp |-> 0]
Jwt(login, exp) == [form |-> "jwt", pfx |-> FALSE, txt |-> login, exp |-> exp]
ForgedJwt(login, exp) == [form |-> "forged", pfx |-> FALSE, txt |-> login, exp |-> exp]
LoginKey(k) == [k EXCEPT !.pfx = TRUE]

Codes == {Str(c) : c \in CodeTexts}
Identities == {Str(u) : u \in RecoverIdents}
TokenClaims == {Jwt(l, TOKEN_LIFETIME_HOURS) : l \in Logins}
ForgedTokens == {ForgedJwt("alice", TOKEN_LIFETIME_HOURS)}

(* ------------------------------------------------------------------ *)
(* Values stored in Redis: a JSON object (json.dumps of a dict) or a   *)
(* raw string (the login stored under a token).  A field the dict does *)
(* not have reads as None, as dict.get does.                           *)
(* ------------------------------------------------------------------ *)
EmptyObj ==
  [json |-> TRUE, raw |-> None, email |-> None, login |-> None,
   password |-> None, code |-> None, remember_user |-> None,
   state |-> None, user |-> None]
RegEntry(email, login, password) ==
  [EmptyObj EXCEPT !.email = email, !.login = login, !.password = password]
LoginEntry(code, login, remember) ==
  [EmptyObj EXCEPT !.code = code, !.login = login, !.remember_user = remember]
RecoveryEntry(state, user) ==
  [EmptyObj EXCEPT !.state = state, !.user = user]
RawValue(s) == [EmptyObj EXCEPT !.json = FALSE, !.raw = s]

\* Requests in flight.  A handler runs without interruption up to an await;
\* confirm and verification await a collaborator between their first and
\* their last store call, and another request may run meanwhile.  inflight
\* holds the requests that have run up to their await: each is awaiting
\* (with what it has read so far) or done (with the status it answered);
\* raced records that it and another request of the same operation and code
\* were awaiting at the same time.
Procs == {1, 2}
InFlight(pc, op, code, data, status, raced) ==
  [pc |-> pc, op |-> op, code |-> code, data |-> data, status |-> status,
   raced |-> raced]

VARIABLES store, users, issued, inflight
vars == <<store, users, issued, inflight>>

(* ------------------------------------------------------------------ *)
(* Redis client operations (redis_client.exists/get/set/setex/delete). *)
(* An entry is [val, ex]: ex = -1 when the key has no expiry.          *)
(* ------------------------------------------------------------------ *)
RedisExists(s, k) == k \in DOMAIN s
RedisGet(s, k) == s[k].val
RedisPut(s, k, e) == [x \in (DOMAIN s) \cup {k} |-> IF x = k THEN e ELSE s[x]]
RedisSet(s, k, v) == RedisPut(s, k, [val |-> v, ex |-> -1])
RedisSetex(s, k, ttl, v) == RedisPut(s, k, [val |-> v, ex |-> ttl])
RedisDelete(s, k) == [x \in (DOMAIN s) \ {k} |-> s[x]]

\* The strings a request may carry: every key of the store and the strings a
\* client can make up (codes, identities, token strings).
Submitted(s) == (DOMAIN s) \cup Codes \cup Identities \cup TokenClaims \cup ForgedTokens

\* The strings the requests of a behaviour carry.  A handler given a string
\* that is no key of the store leaves the store and the user table as they
\* are, so one such string per kind is enough to reach every state.
Requested(s) == (DOMAIN s) \cup Codes \cup TokenClaims

\* What a handler does: the status of its response and the store and user
\* table it leaves.  500 is an exception that leaves the handler, 401 the
\* HTTPException of the token check.
Result(status, s, us) == [status |-> status, store |-> s, users |-> us]

Init ==
  /\ store = [x \in {} |-> [val |-> EmptyObj, ex |-> -1]]
  /\ users = <<>>
  /\ issued = 0
  /\ inflight = [p \in {} |-> InFlight("done", None, Str(None), EmptyObj, 0, FALSE)]

(* ------------------------------------------------------------------ *)
(* Collaborators: password hashing, the user table, the backend flows  *)
(* and the JWT helpers.                                                *)
(* ------------------------------------------------------------------ *)
Hash(p) == <<"hash", p>>
VerifyHash(p, digest) == digest = Hash(p)

is_valid_email(e) == e \in GoodEmails

UserRow(name, email, password) ==
  [name |-> name, email |-> email, password |-> Hash(password), is_active |-> FALSE]

select_by_user(us, login) == {i \in 1..Len(us) : us[i].name = login}
select_by_email(us, email) == {i \in 1..Len(us) : us[i].email = email}
FindUser(us, ident) == select_by_user(us, ident) \cup select_by_email(us, ident)

update_is_active(us, login, flag) ==
  [i \in 1..Len(us) |->
     IF us[i].name = login THEN [us[i] EXCEPT !.is_active = flag] ELSE us[i]]

update_password(us, ident, password) ==
  [i \in 1..Len(us) |->
     IF i \in FindUser(us, ident) THEN [us[i] EXCEPT !.password = Hash(password)]
     ELSE us[i]]

\* Registration.register: 422 on malformed input, 400 on a taken login or email.
RegisterStatus(us, email, login, password, password_two) ==
  IF ~is_valid_email(email) \/ password # password_two THEN 422
  ELSE IF select_by_user(us, login) # {} \/ select_by_email(us, email) # {} THEN 400
  ELSE 200

\* Registration.confirm_register: hashes the password and inserts the row; a
\* row needs all three fields.
ConfirmRegisterStatus(email, login, password) ==
  IF email = None \/ login = None \/ password = None THEN 400 ELSE 200

\* Authorization.authorization: one generic failure for unknown user or bad password.
AuthorizationStatus(us, login, password) ==
  IF \E i \in select_by_user(us, login) : VerifyHash(password, us[i].password)
  THEN 200 ELSE 400

\* PasswordRecovery.recover_pass: resolves a login or an email.
RecoverPassStatus(us, ident) ==
  IF FindUser(us, ident) # {} THEN 200 ELSE 400

\* PasswordRecovery.new_password
NewPasswordStatus(us, ident, password, password_two) ==
  IF password # password_two THEN 422
  ELSE IF FindUser(us, ident) = {} THEN 400
  ELSE 200

create_jwt_token(login, token_lifetime_hours) == Jwt(login, token_lifetime_hours)

\* decode_jwt_token succeeds on a token signed with SECRET_KEY whose expiry
\* claim has not passed; on anything else it raises.
DecodeOk(token) == token.form = "jwt" /\ ~token.pfx /\ token.exp > 0

(* ------------------------------------------------------------------ *)
(* get_current_user: the token check                                  *)
(* ------------------------------------------------------------------ *)
\* Mutant: the token check without the look-up in the store.
get_current_user_no_store_check(s, us, token) ==
  IF ~DecodeOk(token) THEN Result(401, s, us) ELSE Result(200, s, us)

get_current_user(s, us, token) ==
  IF ~RedisExists(s, token) THEN Result(401, s, us)
  ELSE IF ~DecodeOk(token) THEN Result(401, s, us)
  ELSE Result(200, s, us)

(* ------------------------------------------------------------------ *)
(* POST /registration/                                                 *)
(* ------------------------------------------------------------------ *)
registration(s, us, email, login, password, password_two, code) ==
  LET status == RegisterStatus(us, email, login, password, password_two) IN
  IF status = 200
  THEN Result(200, RedisSet(s, Str(code), RegEntry(email, login, password)), us)
  ELSE Result(status, s, us)

(* ------------------------------------------------------------------ *)
(* POST /registration/confirm                                          *)
(* ------------------------------------------------------------------ *)
ConfirmDeleteKey(code) == LoginKey(code)

confirm(s, us, code) ==
  IF ~RedisExists(s, code) THEN Result(400, s, us)
  ELSE LET user_data == RedisGet(s, code) IN
       IF ~user_data.json
       THEN \* json.loads raises on the raw login stored under a token
            Result(500, s, us)
       ELSE LET email == user_data.email
                login == user_data.login
                password == user_data.password
            IN IF ConfirmRegisterStatus(email, login, password) = 200
               THEN Result(200, RedisDelete(s, ConfirmDeleteKey(code)),
                           Append(us, UserRow(login, email, password)))
               ELSE Result(400, s, us)

\* confirm in two parts, cut at its await.  confirm_check is the handler up
\* to the call of confirm_register: status 0 stands for "goes on", with the
\* entry it has read; confirm_finish is the rest, on what was read.
Checked(status, s, data) == [status |-> status, store |-> s, data |-> data]

\* Mutant: the check that takes the entry out of the store as it reads it.
confirm_check_and_delete(s, code) ==
  IF ~RedisExists(s, code) THEN Checked(400, s, EmptyObj)
  ELSE IF ~RedisGet(s, code).json THEN Checked(500, s, EmptyObj)
  ELSE Checked(0, RedisDelete(s, code), RedisGet(s, code))

confirm_check(s, code) ==
  IF ~RedisExists(s, code) THEN Checked(400, s, EmptyObj)
  ELSE IF ~RedisGet(s, code).json THEN Checked(500, s, EmptyObj)
  ELSE Checked(0, s, RedisGet(s, code))

confirm_finish(s, us, code, user_data) ==
  IF ConfirmRegisterStatus(user_data.email, user_data.login, user_data.password) = 200
  THEN Result(200, RedisDelete(s, ConfirmDeleteKey(code)),
              Append(us, UserRow(user_data.login, user_data.email, user_data.password)))
  ELSE Result(400, s, us)

(* ------------------------------------------------------------------ *)
(* POST /authorization/                                                *)
(* ------------------------------------------------------------------ *)
authorization(s, us, login, password, memorize_user, code) ==
  LET status == AuthorizationStatus(us, login, password) IN
  IF status = 200
  THEN Result(200, RedisSet(s, Str(code), LoginEntry(code, login, memorize_user)), us)
  ELSE Result(status, s, us)

(* ------------------------------------------------------------------ *)
(* POST /authorization/verification                                    *)
(* ------------------------------------------------------------------ *)
VerificationDeleteKey(auth_code) == LoginKey(Str(auth_code))

verification(s, us, code) ==
  IF ~RedisExists(s, code)
  THEN \* the 400 response is built but not returned; get() gives None and
       \* None.decode raises
       Result(500, s, us)
  ELSE LET user_data == RedisGet(s, code) IN
       IF ~user_data.json THEN Result(500, s, us)
       ELSE LET login == user_data.login
                auth_code == user_data.code
                token == create_jwt_token(login, TOKEN_LIFETIME_HOURS)
                active == update_is_active(us, login, TRUE)
            IN IF login = None
               THEN \* setex of a None value raises in the Redis client
                    Result(500, s, active)
               ELSE Result(200,
                           RedisDelete(RedisSetex(s, token, TOKEN_TTL_HOURS,
                                                  RawValue(login)),
                                       VerificationDeleteKey(auth_code)),
                           active)

\* verification in two parts, cut at its await of update_is_active.
verification_check(s, code) ==
  IF ~RedisExists(s, code) THEN Checked(500, s, EmptyObj)
  ELSE IF ~RedisGet(s, code).json THEN Checked(500, s, EmptyObj)
  ELSE Checked(0, s, RedisGet(s, code))

verification_finish(s, us, user_data) ==
  LET login == user_data.login
      auth_code == user_data.code
      token == create_jwt_token(login, TOKEN_LIFETIME_HOURS)
      active == update_is_active(us, login, TRUE)
  IN IF login = None
     THEN Result(500, s, active)
     ELSE Result(200,
                 RedisDelete(RedisSetex(s, token, TOKEN_TTL_HOURS, RawValue(login)),
                             VerificationDeleteKey(auth_code)),
                 active)

(* ------------------------------------------------------------------ *)
(* POST /authorization/recover                                         *)
(* ------------------------------------------------------------------ *)
\* Mutant: the recover that stores data_redis before it looks at the status.
recover_sets_before_check(s, us, user, code) ==
  LET status == RecoverPassStatus(us, user)
      data_redis == RecoveryEntry(SESSION_STATE_MAIL, user)
  IN Result(status, RedisSet(s, Str(code), data_redis), us)

recover(s, us, user, code) ==
  LET status == RecoverPassStatus(us, user)
      data_redis == RecoveryEntry(SESSION_STATE_MAIL, user)
  IN IF status = 200
     THEN Result(200, RedisSet(s, Str(code), data_redis), us)
     ELSE Result(status, s, us)

(* ------------------------------------------------------------------ *)
(* POST /authorization/recover/reset_code                              *)
(* ------------------------------------------------------------------ *)
ResetCodeDeleteKey(code) == LoginKey(code)

\* Mutant: the reset_code that does not look at the entry's state.
reset_code_no_state_check(s, us, code) ==
  IF ~RedisExists(s, code) THEN Result(500, s, us)
  ELSE LET user_data == RedisGet(s, code) IN
       IF ~user_data.json THEN Result(500, s, us)
       ELSE LET user == user_data.user
            IN Result(200,
                      RedisDelete(RedisSet(s, Str(user),
                                           RecoveryEntry(SESSION_STATE_CODE, user)),
                                  ResetCodeDeleteKey(code)),
                      us)

reset_code(s, us, code) ==
  IF ~RedisExists(s, code)
  THEN \* as in verification: the 400 response is not returned
       Result(500, s, us)
  ELSE LET user_data == RedisGet(s, code) IN
       IF ~user_data.json THEN Result(500, s, us)
       ELSE LET state == user_data.state
                user == user_data.user
            IN IF state = SESSION_STATE_MAIL
               THEN Result(200,
                           RedisDelete(RedisSet(s, Str(user),
                                                RecoveryEntry(SESSION_STATE_CODE, user)),
                                       ResetCodeDeleteKey(code)),
                           us)
               ELSE Result(400, s, us)

(* ------------------------------------------------------------------ *)
(* POST /authorization/recover/reset_code/change_password              *)
(* ------------------------------------------------------------------ *)
ChangePasswordDeleteKey(user) == LoginKey(Str(user))

\* Mutant: the password change that does not look at the entry's state.
change_password_no_state_check(s, us, data_user, password, password_two) ==
  IF ~RedisExists(s, data_user) THEN Result(500, s, us)
  ELSE LET user_data == RedisGet(s, data_user) IN
       IF ~user_data.json THEN Result(500, s, us)
       ELSE LET user == user_data.user
                status == NewPasswordStatus(us, user, password, password_two)
            IN IF status = 200
               THEN Result(200, RedisDelete(s, ChangePasswordDeleteKey(user)),
                           update_password(us, user, password))
               ELSE Result(status, s, us)

change_password(s, us, data_user, password, password_two) ==
  IF ~RedisExists(s, data_user)
  THEN \* get() gives None and None.decode raises
       Result(500, s, us)
  ELSE LET user_data == RedisGet(s, data_user) IN
       IF ~user_data.json THEN Result(500, s, us)
       ELSE LET state == user_data.state
                user == user_data.user
            IN IF state = SESSION_STATE_CODE
               THEN LET status == NewPasswordStatus(us, user, password, password_two)
                    IN IF status = 200
                       THEN Result(200, RedisDelete(s, ChangePasswordDeleteKey(user)),
                                   update_password(us, user, password))
                       ELSE Result(status, s, us)
               ELSE Result(400, s, us)

(* ------------------------------------------------------------------ *)
(* POST /logout/                                                       *)
(* ------------------------------------------------------------------ *)
\* Mutant: the logout that deletes the key behind the "login:" prefix, as the
\* other handlers do.
logout_prefixed_delete(s, us, token) ==
  IF RedisExists(s, token)
  THEN IF DecodeOk(token)
       THEN Result(200, RedisDelete(s, LoginKey(token)),
                   update_is_active(us, token.txt, TRUE))
       ELSE Result(500, RedisDelete(s, LoginKey(token)), us)
  ELSE Result(400, s, us)

\* Mutant: the logout that does not ask the store whether it holds the token.
logout_no_exists_check(s, us, token) ==
  IF DecodeOk(token)
  THEN Result(200, RedisDelete(s, token), update_is_active(us, token.txt, TRUE))
  ELSE Result(500, RedisDelete(s, token), us)

\* Mutant: the logout that ends the user's session by clearing the store.
logout_flushes_store(s, us, token) ==
  IF RedisExists(s, token)
  THEN IF DecodeOk(token)
       THEN Result(200, [x \in {} |-> s[x]], update_is_active(us, token.txt, TRUE))
       ELSE Result(500, RedisDelete(s, token), us)
  ELSE Result(400, s, us)

logout(s, us, token) ==
  IF RedisExists(s, token)
  THEN IF DecodeOk(token)
       THEN Result(200, RedisDelete(s, token), update_is_active(us, token.txt, TRUE))
       ELSE \* decode_jwt_token raises after the key was deleted
            Result(500, RedisDelete(s, token), us)
  ELSE Result(400, s, us)

(* ------------------------------------------------------------------ *)
(* The requests as steps of the system                                 *)
(* ------------------------------------------------------------------ *)
TokenKeys(s) == {k \in DOMAIN s : k.form = "jwt"}

\* The step a request takes; the model keeps the user table within MaxUsers
\* rows and counts the tokens issued, up to MaxIssued.
Handle(r) ==
  /\ Len(r.users) <= MaxUsers
  /\ store' = r.store
  /\ users' = r.users
  /\ UNCHANGED inflight

Registration(email, login, password, password_two, code) ==
  /\ Handle(registration(store, users, email, login, password, password_two, code))
  /\ UNCHANGED issued

Confirm(code) == Handle(confirm(store, users, code)) /\ UNCHANGED issued

Authorization(login, password, memorize_user, code) ==
  /\ Handle(authorization(store, users, login, password, memorize_user, code))
  /\ UNCHANGED issued

Verification(code) ==
  LET r == verification(store, users, code) IN
  /\ Handle(r)
  /\ IF r.status = 200
     THEN issued < MaxIssued /\ issued' = issued + 1
     ELSE issued' = issued

Recover(user, code) == Handle(recover(store, users, user, code)) /\ UNCHANGED issued

ResetCode(code) == Handle(reset_code(store, users, code)) /\ UNCHANGED issued

ChangePassword(user, password, password_two) ==
  /\ Handle(change_password(store, users, user, password, password_two))
  /\ UNCHANGED issued

Logout(token) == Handle(logout(store, users, token)) /\ UNCHANGED issued

GetCurrentUser(token) == Handle(get_current_user(store, users, token)) /\ UNCHANGED issued

(* ------------------------------------------------------------------ *)
(* Time.  Nothing a handler does depends on the clock except through   *)
(* a token's expiry claim and the store's reaping of a key, so time    *)
(* passes from one such deadline to the next: Tick lets pass the hours *)
(* until the nearest one.  Every token string is then that much closer *)
(* to (or further past) its expiry claim, and the store has reaped the *)
(* keys whose time-to-live has run out.                                *)
(* ------------------------------------------------------------------ *)
Deadlines(s) ==
  {s[k].ex : k \in {x \in DOMAIN s : s[x].ex # -1}}
    \cup {k.exp : k \in {x \in TokenKeys(s) : x.exp > 0}}
Earliest(D) == CHOOSE d \in D : \A e \in D : d <= e

Age(k, d) == IF k.form = "plain" THEN k ELSE [k EXCEPT !.exp = @ - d]
Unage(k, d) == IF k.form = "plain" THEN k ELSE [k EXCEPT !.exp = @ + d]
Live(s, d) == {k \in DOMAIN s : s[k].ex = -1 \/ s[k].ex > d}
AgeEntry(e, d) == [e EXCEPT !.ex = IF @ = -1 THEN -1 ELSE @ - d]
RedisExpire(s, d) == [k \in {Age(x, d) : x \in Live(s, d)} |-> AgeEntry(s[Unage(k, d)], d)]

Tick ==
  /\ Deadlines(store) # {}
  /\ store' = RedisExpire(store, Earliest(Deadlines(store)))
  /\ UNCHANGED <<users, issued, inflight>>

Next ==
  \/ \E email \in Emails, login \in Logins, password \in RegPasswords,
        password_two \in Passwords, code \in CodeTexts :
       Registration(email, login, password, password_two, code)
  \/ \E code \in Requested(store) : Confirm(code)
  \/ \E login \in Logins, password \in Passwords, memorize_user \in RememberFlags,
        code \in CodeTexts :
       Authorization(login, password, memorize_user, code)
  \/ \E code \in Requested(store) : Verification(code)
  \/ \E user \in RecoverIdents, code \in CodeTexts : Recover(user, code)
  \/ \E code \in Requested(store) : ResetCode(code)
  \/ \E user \in Requested(store), password \in NewPasswords, password_two \in Passwords :
       ChangePassword(user, password, password_two)
  \/ \E token \in Requested(store) : Logout(token)
  \/ \E token \in Requested(store) : GetCurrentUser(token)
  \/ Tick

Spec == Init /\ [][Next]_vars

(* ------------------------------------------------------------------ *)
(* Requests that overlap.  Begin runs a confirm or a verification up to *)
(* its await, End runs the rest; between the two any other request may  *)
(* run.  An await lasts no hours: time passes while no request awaits.  *)
(* ------------------------------------------------------------------ *)
Awaiting(f, op, code) == f.pc = "awaiting" /\ f.op = op /\ f.code = code

Begin(p, op, code, c) ==
  /\ p \notin DOMAIN inflight
  /\ store' = c.store
  /\ inflight' =
       [q \in (DOMAIN inflight) \cup {p} |->
          IF q = p
          THEN InFlight(IF c.status = 0 THEN "awaiting" ELSE "done",
                        op, code, c.data, c.status,
                        c.status = 0
                          /\ \E o \in DOMAIN inflight : Awaiting(inflight[o], op, code))
          ELSE IF c.status = 0 /\ Awaiting(inflight[q], op, code)
               THEN [inflight[q] EXCEPT !.raced = TRUE]
               ELSE inflight[q]]
  /\ UNCHANGED <<users, issued>>

End(p, r) ==
  /\ Len(r.users) <= MaxUsers
  /\ store' = r.store
  /\ users' = r.users
  /\ inflight' = [inflight EXCEPT ![p].pc = "done", ![p].status = r.status]

ConfirmBegin(p, code) == Begin(p, "confirm", code, confirm_check(store, code))

ConfirmEnd(p) ==
  /\ p \in DOMAIN inflight
  /\ Awaiting(inflight[p], "confirm", inflight[p].code)
  /\ End(p, confirm_finish(store, users, inflight[p].code, inflight[p].data))
  /\ UNCHANGED issued

VerificationBegin(p, code) ==
  Begin(p, "verification", code, verification_check(store, code))

\* A token string the store already holds is stored again without a further
\* string being issued.
VerificationEnd(p) ==
  /\ p \in DOMAIN inflight
  /\ Awaiting(inflight[p], "verification", inflight[p].code)
  /\ LET r == verification_finish(store, users, inflight[p].data) IN
     /\ End(p, r)
     /\ IF r.status = 200 /\ TokenKeys(r.store) # TokenKeys(store)
        THEN issued < MaxIssued /\ issued' = issued + 1
        ELSE issued' = issued

RaceTick == (\A p \in DOMAIN inflight : inflight[p].pc # "awaiting") /\ Tick

RaceNext ==
  \/ \E email \in GoodEmails, login \in Logins, password \in RegPasswords,
        code \in CodeTexts :
       Registration(email, login, password, password, code)
  \/ \E login \in Logins, password \in RegPasswords, memorize_user \in RememberFlags,
        code \in CodeTexts :
       Authorization(login, password, memorize_user, code)
  \/ \E p \in Procs, code \in Requested(store) : ConfirmBegin(p, code)
  \/ \E p \in Procs : ConfirmEnd(p)
  \/ \E p \in Procs, code \in Requested(store) : VerificationBegin(p, code)
  \/ \E p \in Procs : VerificationEnd(p)
  \/ \E code \in Requested(store) : Confirm(code)
  \/ RaceTick

RaceSpec == Init /\ [][RaceNext]_vars

(* ================================================================== *)
(* Properties                                                          *)
(* ================================================================== *)
IsPendingRegistration(s, k) ==
  RedisExists(s, k) /\ s[k].val.json /\ s[k].val.email # None /\ s[k].val.password # None
IsPendingLogin(s, k) ==
  RedisExists(s, k) /\ s[k].val.json /\ s[k].val.code # None /\ s[k].val.login # None
IsMailSent(s, k) ==
  RedisExists(s, k) /\ s[k].val.json /\ s[k].val.state = SESSION_STATE_MAIL
IsCodeVerified(s, k) ==
  RedisExists(s, k) /\ s[k].val.json /\ s[k].val.state = SESSION_STATE_CODE

\* C1: for every code stored by a successful register, the first confirm of
\* the code succeeds and leaves no entry under the code, so that a second
\* confirm of the same code answers 400 (code not found).
C1_SecondConfirmNotFound ==
  [][\A c \in Requested(store) :
       (IsPendingRegistration(store, c) /\ Confirm(c)
          /\ confirm(store, users, c).status = 200) =>
         /\ ~RedisExists(store', c)
         /\ confirm(store', users', c).status = 400]_vars

\* C2, at the logout: a logout that answers 200 takes the token out of the
\* store while its signature and expiry claim are still valid, and the token
\* check then rejects the token.
C2_LogoutRevokes ==
  \A t \in Submitted(store) :
    LET out == logout(store, users, t) IN
    out.status = 200 =>
      /\ DecodeOk(t)
      /\ ~RedisExists(out.store, t)
      /\ get_current_user(out.store, out.users, t).status = 401

\* C2, afterwards: a token string that is no key of the store is rejected,
\* whatever its signature and expiry claim.
C2_AbsentRejected ==
  \A t \in Submitted(store) :
    ~RedisExists(store, t) => get_current_user(store, users, t).status = 401

\* C2, the exception: a token string becomes a key of the store only in a
\* login verification that answers 200 and issues that string; the passing
\* of time brings no token string into the store.
C2_OnlyVerificationStores ==
  \/ TokenKeys(store') \subseteq TokenKeys(store)
  \/ IF Tick
     THEN TokenKeys(store') \subseteq
            {Age(t, Earliest(Deadlines(store))) : t \in TokenKeys(store)}
     ELSE \A t \in TokenKeys(store') \ TokenKeys(store) :
            \E c \in DOMAIN store :
              LET v == verification(store, users, c) IN
              /\ v.status = 200
              /\ store' = v.store
              /\ t = create_jwt_token(RedisGet(store, c).login, TOKEN_LIFETIME_HOURS)

\* C2: after a successful logout(token) the token check rejects the token in
\* every later state, although its signature and embedded expiry are still
\* valid, unless a new login verification stores the token again.
C2_TokenRevocation ==
  /\ [](C2_LogoutRevokes /\ C2_AbsentRejected)
  /\ [][C2_OnlyVerificationStores]_vars

\* C2 witness: a live session whose logout succeeds: the token is accepted
\* before the logout and rejected after it.
C2_Witness ==
  \E t \in TokenKeys(store) :
    /\ get_current_user(store, users, t).status = 200
    /\ logout(store, users, t).status = 200
    /\ get_current_user(logout(store, users, t).store, users, t).status = 401

\* C3, at the request: change_password answers 200 only when the store holds
\* under the submitted user identity an entry of state CODE_VERIFIED for
\* that identity; it then changes the password of that user's rows alone,
\* and without such an entry it changes no password.
C3_OnlyWhenCodeVerified ==
  \A k \in Submitted(store), p \in Passwords, p2 \in Passwords :
    LET out == change_password(store, users, k, p, p2) IN
    /\ out.status = 200 =>
         /\ IsCodeVerified(store, k)
         /\ RedisGet(store, k).user = k.txt
         /\ \A i \in 1..Len(users) :
              out.users[i] # users[i] => i \in FindUser(users, k.txt)
    /\ ~IsCodeVerified(store, k) => out.users = users

\* C3, the history: an entry of state CODE_VERIFIED comes into the store only
\* by a confirm_code that answers 200 on a MAIL_SENT entry of the same user,
\* a MAIL_SENT entry only by a recover that answers 200 for its user, and a
\* stored password changes only in a change_password that answers 200.
C3_VerifiedOnlyAfterConfirm ==
  /\ store' # store =>
       \A k \in DOMAIN store' :
         /\ (IsCodeVerified(store', k) /\ ~IsCodeVerified(store, k)) =>
              \E c \in DOMAIN store :
                /\ IsMailSent(store, c)
                /\ RedisGet(store, c).user = k.txt
                /\ reset_code(store, users, c).status = 200
                /\ store' = reset_code(store, users, c).store
         /\ (IsMailSent(store', k) /\ (RedisExists(store, k) => store'[k] # store[k])) =>
              \E u \in RecoverIdents :
                /\ recover(store, users, u, k.txt).status = 200
                /\ store' = recover(store, users, u, k.txt).store
                /\ RedisGet(store', k).user = u
  /\ users' # users =>
       \A i \in 1..Len(users) :
         users'[i].password # users[i].password =>
           \E k \in DOMAIN store, p \in Passwords, p2 \in Passwords :
             /\ IsCodeVerified(store, k)
             /\ change_password(store, users, k, p, p2).status = 200
             /\ users' = change_password(store, users, k, p, p2).users

\* C3: in every reachable state change_password changes a user's stored
\* password only when the store holds an entry keyed by that user identity
\* with state CODE_VERIFIED, and such an entry exists only after a recover
\* for that user followed by a successful confirm_code.
C3_PasswordChangeNeedsVerifiedCode ==
  /\ []C3_OnlyWhenCodeVerified
  /\ [][C3_VerifiedOnlyAfterConfirm]_vars

\* C3 witness: a password has been changed (registration only ever stores
\* the first password), and a recovery is again at its mail stage, where
\* change_password is refused.
C3_Witness ==
  /\ \E i \in 1..Len(users) : users[i].password = Hash("New1")
  /\ \E c \in DOMAIN store :
       /\ IsMailSent(store, c)
       /\ change_password(store, users, c, "New1", "New1").status = 400

\* C4: the token check accepts a token exactly when the token string is a
\* key of the store and its signature and embedded expiry are valid; every
\* other token is rejected with the credentials error (401), and the check
\* changes nothing.
C4_TwoStepTokenCheck ==
  \A t \in Submitted(store) :
    LET out == get_current_user(store, users, t) IN
    /\ out.status = 200 <=> (RedisExists(store, t) /\ t.form = "jwt" /\ t.exp > 0)
    /\ out.status # 200 => out.status = 401
    /\ out.store = store /\ out.users = users

\* C4 witness: each check alone fails somewhere: the store holds a token
\* whose expiry claim has passed and a key that is no token, and a token
\* with a valid signature and expiry is no key of the store.
C4_Witness ==
  /\ \E t \in TokenKeys(store) : t.exp <= 0
  /\ \E k \in DOMAIN store : k.form = "plain"
  /\ \E t \in TokenClaims : ~RedisExists(store, t)

\* C5: login verify(code) with a code that is no key of the store answers
\* 400 ('invalid code') as a value, stores no token and leaves the user
\* table, the active flags with it, unchanged.
C5_AbsentLoginCodeAnswers400 ==
  \A c \in Submitted(store) :
    LET out == verification(store, users, c) IN
    ~RedisExists(store, c) =>
      /\ out.status = 400
      /\ out.store = store
      /\ out.users = users

\* C6: a login verify(code) that answers 200 deletes the PendingLogin entry
\* under the code, so that a second verify of the same code answers
\* 'invalid code' and stores no further token.
C6_VerifyConsumesCode ==
  [][\A c \in Requested(store) :
       (IsPendingLogin(store, c) /\ Verification(c)
          /\ verification(store, users, c).status = 200) =>
         /\ ~RedisExists(store', c)
         /\ verification(store', users', c).status # 200
         /\ verification(store', users', c).store = store']_vars

\* C7: after a recovery confirm_code(C) that answers 200 the store holds an
\* entry of state CODE_VERIFIED under the user identity and no entry under
\* C, so that a second confirm_code(C) fails.
C7_ConfirmCodeRekeys ==
  [][\A c \in Requested(store) :
       (IsMailSent(store, c) /\ ResetCode(c)
          /\ reset_code(store, users, c).status = 200) =>
         /\ IsCodeVerified(store', Str(RedisGet(store, c).user))
         /\ ~RedisExists(store', c)
         /\ reset_code(store', users', c).status # 200]_vars

\* C8: a change_password for user U that answers 200 deletes the entry
\* under U, so that a further change_password for U, with no new recover
\* and confirm_code, fails and leaves the passwords unchanged.
C8_OneChangePerRecovery ==
  [][\A u \in Requested(store), p \in NewPasswords :
       (IsCodeVerified(store, u) /\ ChangePassword(u, p, p)
          /\ change_password(store, users, u, p, p).status = 200) =>
         /\ ~RedisExists(store', u)
         /\ \A q \in Passwords :
              /\ change_password(store', users', u, q, q).status # 200
              /\ change_password(store', users', u, q, q).users = users']_vars

\* C9: change_password for the identity of a user that has no entry in the
\* store answers 400 ('invalid session') as a value and leaves the passwords
\* and the store unchanged.
C9_NoSessionAnswers400 ==
  \A u \in Submitted(store), p \in Passwords, p2 \in Passwords :
    LET out == change_password(store, users, u, p, p2) IN
    (~RedisExists(store, u) /\ FindUser(users, u.txt) # {}) =>
      /\ out.status = 400
      /\ out.store = store
      /\ out.users = users

\* C10: recovery confirm_code(code) with a code that is no key of the store
\* answers 400 ('invalid code') as a value and writes no CODE_VERIFIED entry.
C10_AbsentRecoveryCodeAnswers400 ==
  \A c \in Submitted(store) :
    LET out == reset_code(store, users, c) IN
    ~RedisExists(store, c) =>
      /\ out.status = 400
      /\ \A k \in DOMAIN out.store : IsCodeVerified(out.store, k) => IsCodeVerified(store, k)

IsPending(s, k) ==
  \/ IsPendingRegistration(s, k) \/ IsPendingLogin(s, k)
  \/ IsMailSent(s, k) \/ IsCodeVerified(s, k)

\* C11: every pending entry (registration, login, recovery at either stage)
\* is written with a time-to-live, so that an entry nobody confirms or
\* consumes is reaped by the store and its key is then not found.
C11_PendingEntriesExpire ==
  \A k \in DOMAIN store : IsPending(store, k) => store[k].ex # -1

\* C12: no two persisted users share a login or an email.
C12_UniqueLoginAndEmail ==
  \A i \in 1..Len(users), j \in 1..Len(users) :
    i # j => (users[i].name # users[j].name /\ users[i].email # users[j].email)

\* C13: logout with a token string that is no key of the store answers 400
\* ('token not found'), deletes no entry of the store and writes no user's
\* active flag.
C13_AbsentTokenLogoutChangesNothing ==
  \A t \in Submitted(store) :
    LET out == logout(store, users, t) IN
    ~RedisExists(store, t) =>
      /\ out.status = 400
      /\ out.store = store
      /\ out.users = users

\* C13 witness: a user is persisted and not yet active, the store holds
\* entries, and a well-signed unexpired token of that user is no key of the
\* store: the logout with it answers 400.
C13_Witness ==
  \E t \in TokenClaims :
    /\ ~RedisExists(store, t)
    /\ DOMAIN store # {}
    /\ \E i \in 1..Len(users) : users[i].name = t.txt /\ ~users[i].is_active
    /\ logout(store, users, t).status = 400

\* C14: for every token that is a key of the store, during the whole life of
\* the store entry and also after the token's own expiry claim has passed,
\* logout answers 200, deletes the token's entry and marks the user of the
\* token's claims active.
C14_LogoutSucceedsWhilePresent ==
  \A t \in TokenKeys(store) :
    LET out == logout(store, users, t) IN
    /\ out.status = 200
    /\ ~RedisExists(out.store, t)
    /\ \A i \in 1..Len(out.users) : out.users[i].name = t.txt => out.users[i].is_active

\* C15: passing the existence check of a code takes nothing out of the
\* store, so that a second confirmation of the same code passes the check
\* while the first is still on its way; and of two confirmations of one
\* code (registration confirm or login verify) that have both passed the
\* check before either has reached its delete, each one answers 200.
C15_BothPassAndSucceed ==
  [][inflight' # inflight =>
       \A p \in DOMAIN inflight' :
         /\ (p \notin DOMAIN inflight /\ inflight'[p].pc = "awaiting") =>
              /\ store' = store
              /\ RedisExists(store', inflight'[p].code)
         /\ (/\ p \in DOMAIN inflight
             /\ inflight[p].pc = "awaiting" /\ inflight'[p].pc = "done"
             /\ inflight[p].raced
             /\ inflight[p].data.login # None
             /\ inflight[p].op = "confirm" =>
                  (inflight[p].data.email # None /\ inflight[p].data.password # None)) =>
              inflight'[p].status = 200]_vars

\* C15 witness: two registration confirms of the same code have both passed
\* the check before either finished, and both have answered 200.
C15_Witness ==
  \E p \in DOMAIN inflight, q \in DOMAIN inflight :
    /\ p # q
    /\ inflight[p].pc = "done" /\ inflight[q].pc = "done"
    /\ inflight[p].op = "confirm" /\ inflight[q].op = "confirm"
    /\ inflight[p].code = inflight[q].code
    /\ inflight[p].raced /\ inflight[q].raced
    /\ inflight[p].status = 200 /\ inflight[q].status = 200

\* C16, as stated: the 'mail step not completed' branch of confirm_code is
\* never taken, because every entry confirm_code can read under a submitted
\* code has state MAIL_SENT.
C16_StateBranchUnreachable ==
  \A c \in Submitted(store) :
    /\ reset_code(store, users, c).status # 400
    /\ (RedisExists(store, c) /\ RedisGet(store, c).json) => IsMailSent(store, c)

\* C16, amended: confirm_code takes the 'mail step not completed' branch
\* exactly when the submitted key holds an entry whose state is not
\* MAIL_SENT; such an entry is a pending registration, a pending login or a
\* CODE_VERIFIED entry, which share the key space with the MAIL_SENT
\* entries; the branch changes nothing, and on a MAIL_SENT entry
\* confirm_code succeeds.
C16_StateBranchOnOtherEntries ==
  \A c \in Submitted(store) :
    LET out == reset_code(store, users, c) IN
    /\ out.status = 400 <=>
         (RedisExists(store, c) /\ RedisGet(store, c).json /\ ~IsMailSent(store, c))
    /\ out.status = 400 =>
         /\ IsPendingRegistration(store, c) \/ IsPendingLogin(store, c)
              \/ IsCodeVerified(store, c)
         /\ out.store = store
         /\ out.users = users
    /\ IsMailSent(store, c) => out.status = 200

\* C16 witness: a code holds a pending login and a user identity holds a
\* CODE_VERIFIED entry; confirm_code answers 400 on both.
C16_Witness ==
  /\ \E c \in Codes :
       IsPendingLogin(store, c) /\ reset_code(store, users, c).status = 400
  /\ \E u \in Identities :
       IsCodeVerified(store, u) /\ reset_code(store, users, u).status = 400

\* C17: whenever the store holds a token whose value is the login L, L is
\* the login of a persisted user and every user of that login is active.
C17_LiveTokenMeansActiveUser ==
  \A t \in TokenKeys(store) :
    LET L == RedisGet(store, t).raw IN
    /\ select_by_user(users, L) # {}
    /\ \A i \in select_by_user(users, L) : users[i].is_active

\* C18: login verify answers 200 and stores a token only for a code that
\* holds a pending login; on a pending registration, a MAIL_SENT entry or
\* the identity key of a CODE_VERIFIED entry it stores no token.
C18_TokenOnlyForPendingLogin ==
  \A c \in Submitted(store) :
    LET out == verification(store, users, c) IN
    /\ out.status = 200 => IsPendingLogin(store, c)
    /\ ~IsPendingLogin(store, c) => TokenKeys(out.store) \subseteq TokenKeys(store)

C20_FailedRequestWritesNothing ==
  /\ \A email \in Emails, login \in Logins, password \in Passwords,
        password_two \in Passwords, code \in CodeTexts :
       LET out == registration(store, users, email, login, password, password_two, code)
       IN out.status # 200 => out.store = store
  /\ \A login \in Logins, password \in Passwords, memorize_user \in RememberFlags,
        code \in CodeTexts :
       LET out == authorization(store, users, login, password, memorize_user, code)
       IN out.status # 200 => out.store = store
  /\ \A user \in Logins \cup Emails, code \in CodeTexts :
       LET out == recover(store, users, user, code)
       IN out.status # 200 => out.store = store

\* C20 witness: the store holds a pending entry under the code, and a
\* register (duplicate login), an authenticate (wrong password) and a recover
\* (unknown user) that would write under the same code all fail.
C20_Witness ==
  \E code \in CodeTexts :
    /\ IsPending(store, Str(code))
    /\ \E email \in GoodEmails, login \in Logins :
         registration(store, users, email, login, "P@ss1", "P@ss1", code).status = 400
    /\ \E login \in Logins :
         /\ select_by_user(users, login) # {}
         /\ \E password \in Passwords :
              authorization(store, users, login, password, "True", code).status = 400
    /\ \E user \in Logins \cup Emails :
         recover(store, users, user, code).status = 400

====
